---- MODULE Spec2Model ----
(***************************************************************************)
(* Model of src/fund_limit_fetcher.py: FundLimitFetcher and the two        *)
(* module-level convenience functions get_fund_limit and                   *)
(* get_fund_limit_details.                                                 *)
(*                                                                         *)
(* Encoding of text.  A Python str is a sequence of one-character tokens.  *)
(* The Chinese characters of the source are written in pinyin, one token   *)
(* per character:                                                          *)
(*   "Zan","Ting","Shen","Gou"     the status  zan-ting-shen-gou (paused)  *)
(*   "Zheng","Chang","Shen","Gou"  the status  zheng-chang-shen-gou        *)
(*   "Xian"                        the prefix of a limit text              *)
(*   "Wan"                         the ten-thousand suffix                 *)
(* Encoding of numbers.  A float is held exactly as a count of halves      *)
(* (n = 2 * amount), so that 0.5, 1.5, 9999.5 are representable and the    *)
(* rounding of the ".0f" format is visible.                                *)
(***************************************************************************)
EXTENDS Integers, Sequences, FiniteSets, TLC

(***************************************************************************)
(* Python values: t is the type tag, n the numeric payload (in halves),    *)
(* s the text payload.                                                     *)
(***************************************************************************)
Py(t, n, s) == [t |-> t, n |-> n, s |-> s]

None == Py("None", 0, <<>>)

PyStr(s) == Py("str", 0, s)

PyFloat(n) == Py("float", n, <<>>)

PyInt(n) == Py("int", n, <<>>)

NaN == Py("nan", 0, <<>>)

Inf == Py("inf", 0, <<>>)

Raised(kind) == Py("raise", 0, <<kind>>)

IsRaised(x) == x.t = "raise"

\* bool(x) of lines 89-92: None, 0, 0.0 and "" are falsy; nan and inf are truthy.
Truthy(x) ==
    CASE x.t = "None" -> FALSE
      [] x.t \in {"float", "int"} -> x.n # 0
      [] x.t = "str" -> x.s # <<>>
      [] OTHER -> TRUE

DigitChars == <<"0", "1", "2", "3", "4", "5", "6", "7", "8", "9">>

IsDigit(c) == \E d \in 1..10 : DigitChars[d] = c

DigitValue(c) == (CHOOSE d \in 1..10 : DigitChars[d] = c) - 1

RECURSIVE ParseDigits(_)
\* The value of a non-empty string of decimal digits.
ParseDigits(s) ==
    IF s = <<>> THEN 0
    ELSE 10 * ParseDigits(SubSeq(s, 1, Len(s) - 1)) + DigitValue(s[Len(s)])

\* float(x) of line 89, for the cells the model draws: a float is kept, a
\* string of digits is parsed, "inf" and "nan" are accepted by float(), and
\* any other string raises ValueError.
PyFloatOf(x) ==
    CASE x.t \in {"float", "nan", "inf"} -> x
      [] x.t = "int" -> PyFloat(x.n)
      [] x.t = "str" ->
            IF x.s # <<>> /\ \A i \in 1..Len(x.s) : IsDigit(x.s[i])
            THEN PyFloat(2 * ParseDigits(x.s))
            ELSE IF x.s = <<"i", "n", "f">> THEN Inf
            ELSE IF x.s = <<"n", "a", "n">> THEN NaN
            ELSE Raised("ValueError")
      [] OTHER -> Raised("TypeError")

\* str(x) of lines 90-92 for the text cells the model draws: str(nan) is "nan".
PyStrOf(x) ==
    CASE x.t = "str" -> x
      [] x.t = "nan" -> PyStr(<<"n", "a", "n">>)
      [] x.t = "None" -> PyStr(<<"N", "o", "n", "e">>)
      [] OTHER -> Raised("TypeError")

RECURSIVE Digits(_)
\* The decimal digits of a natural number, as Python writes them.
Digits(n) ==
    IF n < 10 THEN <<DigitChars[n + 1]>>
    ELSE Digits(n \div 10) \o <<DigitChars[(n % 10) + 1]>>

\* The nearest integer to num/den (num >= 0, den > 0), ties to the even
\* neighbour: what the ".0f" format of lines 123 and 125 prints.
RoundHalfEven(num, den) ==
    LET q == num \div den
        r == num % den
    IN  IF 2 * r < den THEN q
        ELSE IF 2 * r > den THEN q + 1
        ELSE IF q % 2 = 0 THEN q ELSE q + 1

\* The number 10000 of lines 122 and 123.
TenThousand == 10000

\* The prefix length of line 68.
PrefixLen == 2

(***************************************************************************)
(* The table of ak.fund_purchase_em().  Column names in pinyin:            *)
(*   ColCode   ji-jin-dai-ma              (fund code)                      *)
(*   ColLimit  ri-lei-ji-xian-ding-jin-e  (daily cumulative limit amount)  *)
(*   ColStatus shen-gou-zhuang-tai        (purchase status)                *)
(*   ColType   ji-jin-lei-xing            (fund type)                      *)
(*   ColName   ji-jin-jian-cheng          (fund short name)                *)
(* A DataFrame is its set of columns and its rows in order; a row is a     *)
(* function from the columns to cells.                                     *)
(***************************************************************************)
ColCode == "JiJinDaiMa"

ColLimit == "RiLeiJiXianDingJinE"

ColStatus == "ShenGouZhuangTai"

ColType == "JiJinLeiXing"

ColName == "JiJinJianCheng"

DataFrame(columns, rows) == [t |-> "df", columns |-> columns, rows |-> rows]

\* What ak.fund_purchase_em() does when it fails (line 26 raising).
ProviderRaises == [t |-> "raise", columns |-> {}, rows |-> <<>>]

\* The None of line 31.
NoFrame == [t |-> "None", columns |-> {}, rows |-> <<>>]

\* The status compared at line 118.
PAUSED == <<"Zan", "Ting", "Shen", "Gou">>

NORMAL == <<"Zheng", "Chang", "Shen", "Gou">>

\* The instance right after FundLimitFetcher(): __init__ sets no attribute.
FundLimitFetcher == <<>>

\* A method's outcome: the value returned, the instance afterwards, and the
\* number of calls of ak.fund_purchase_em() it made.
Outcome(ret, self, calls) == [ret |-> ret, self |-> self, calls |-> calls]

\* get_fund_purchase_data keeping the last table it got in an attribute and
\* serving it again when the provider fails.
get_fund_purchase_data_cached(self, response) ==
    IF response.t = "raise"
    THEN Outcome(IF self = <<>> THEN NoFrame ELSE self[1], self, 1)
    ELSE Outcome(response, <<response>>, 1)

\* Lines 24-31: the provider's table, or None when the call raises.  No
\* attribute of the instance is read or written.
get_fund_purchase_data(self, response) ==
    Outcome(IF response.t = "raise" THEN NoFrame ELSE response, self, 1)

\* Line 63: the rows whose code cell equals fund_code (a nan cell equals nothing).
ExactMatch(fund_data, fund_code) ==
    {i \in 1..Len(fund_data.rows) : fund_data.rows[i][ColCode] = PyStr(fund_code)}

\* Line 68.
numeric_code(fund_code) ==
    IF Len(fund_code) > PrefixLen
    THEN SubSeq(fund_code, PrefixLen + 1, Len(fund_code))
    ELSE fund_code

\* re.compile of the pattern: over the characters the model draws, a pattern
\* is malformed exactly when it holds "(" (there is no ")" to close it).
RegexCompiles(pat) == \A j \in 1..Len(pat) : pat[j] # "("

\* re.search(pat, s) for a well-formed pattern of literal characters and
\* ".", which matches any character.
RegexSearch(pat, s) ==
    \E i \in 0..(Len(s) - Len(pat)) :
        \A j \in 1..Len(pat) : pat[j] = "." \/ pat[j] = s[i + j]

\* Line 70: Series.str.contains(pat, na=False) with its default regex=True.
\* Yields the matching rows, or the re.error of a malformed pattern.
StrContains(fund_data, pat) ==
    IF ~RegexCompiles(pat) THEN Raised("re.error")
    ELSE Py("rows", 0,
            {i \in 1..Len(fund_data.rows) :
                /\ fund_data.rows[i][ColCode].t = "str"
                /\ RegexSearch(pat, fund_data.rows[i][ColCode].s)})

\* fund_info with the containment search tried before the exact match.
fund_info_containsFirst(fund_data, fund_code) ==
    LET found == StrContains(fund_data, numeric_code(fund_code))
    IN  IF IsRaised(found) \/ found.s # {} THEN found
        ELSE Py("rows", 0, ExactMatch(fund_data, fund_code))

\* Lines 63-70: fund_info, as the set of selected row positions.
fund_info(fund_data, fund_code) ==
    IF ExactMatch(fund_data, fund_code) # {}
    THEN Py("rows", 0, ExactMatch(fund_data, fund_code))
    ELSE StrContains(fund_data, numeric_code(fund_code))

\* Cell reading the row without testing that the table has the column: a
\* KeyError when it is missing.
Cell_unguarded(columns, fund_row, col, default) ==
    IF col \in columns THEN fund_row[col] ELSE Raised("KeyError")

\* Lines 83-86: the cell of a column, or the default when the table lacks it.
Cell(columns, fund_row, col, default) ==
    IF col \in columns THEN fund_row[col] ELSE default

\* Lines 88-93, with the exceptions float() and str() may raise.
LimitInfo(columns, fund_row) ==
    LET limit_amount == Cell(columns, fund_row, ColLimit, PyInt(0))
        purchase_status == Cell(columns, fund_row, ColStatus, PyStr(<<>>))
        fund_type == Cell(columns, fund_row, ColType, PyStr(<<>>))
        fund_name == Cell(columns, fund_row, ColName, PyStr(<<>>))
        la == IF Truthy(limit_amount) THEN PyFloatOf(limit_amount) ELSE PyInt(0)
        ps == IF Truthy(purchase_status) THEN PyStrOf(purchase_status) ELSE PyStr(<<>>)
        ft == IF Truthy(fund_type) THEN PyStrOf(fund_type) ELSE PyStr(<<>>)
        fn == IF Truthy(fund_name) THEN PyStrOf(fund_name) ELSE PyStr(<<>>)
    IN  IF IsRaised(la) THEN la
        ELSE IF IsRaised(ps) THEN ps
        ELSE IF IsRaised(ft) THEN ft
        ELSE IF IsRaised(fn) THEN fn
        ELSE [t |-> "dict", limit_amount |-> la, purchase_status |-> ps,
              fund_type |-> ft, fund_name |-> fn]

\* The None of lines 54, 60, 74, 96, shaped like a LimitInfo.
NoInfo ==
    [t |-> "None", limit_amount |-> None, purchase_status |-> None,
     fund_type |-> None, fund_name |-> None]

\* extract_fund_limit_info answering with an all-default LimitInfo, instead
\* of None, when there is no table or no row to read.
extract_fund_limit_info_defaults(self, response, fund_code) ==
    LET got == get_fund_purchase_data(self, response)
        fund_data == got.ret
        sel == fund_info(fund_data, fund_code)
        defaults == LimitInfo({}, <<>>)
        body ==
            IF fund_data.t = "None" THEN defaults
            ELSE IF ColCode \notin fund_data.columns THEN defaults
            ELSE IF IsRaised(sel) THEN sel
            ELSE IF sel.s = {} THEN defaults
            ELSE LimitInfo(fund_data.columns,
                           fund_data.rows[CHOOSE i \in sel.s : \A k \in sel.s : i <= k])
    IN  Outcome(IF IsRaised(body) THEN NoInfo ELSE body, got.self, got.calls)

\* Lines 49-96.  The try body yields a LimitInfo, None or an exception; the
\* except clause of lines 94-96 turns the exception into None.
extract_fund_limit_info(self, response, fund_code) ==
    LET got == get_fund_purchase_data(self, response)
        fund_data == got.ret
        sel == fund_info(fund_data, fund_code)
        body ==
            IF fund_data.t = "None" THEN NoInfo
            ELSE IF ColCode \notin fund_data.columns THEN NoInfo
            ELSE IF IsRaised(sel) THEN sel
            ELSE IF sel.s = {} THEN NoInfo
            ELSE LimitInfo(fund_data.columns,
                           fund_data.rows[CHOOSE i \in sel.s : \A k \in sel.s : i <= k])
    IN  Outcome(IF IsRaised(body) THEN NoInfo ELSE body, got.self, got.calls)

\* LimitText with the amount cut to its integer part instead of rounded.
LimitText_truncated(limit_amount) ==
    IF limit_amount.t = "inf"
    THEN <<"Xian", "i", "n", "f", "Wan">>
    ELSE IF limit_amount.n >= 2 * TenThousand
    THEN <<"Xian">> \o Digits(limit_amount.n \div (2 * TenThousand)) \o <<"Wan">>
    ELSE <<"Xian">> \o Digits(limit_amount.n \div 2)

\* Lines 122-125: the text of a positive limit amount.
LimitText(limit_amount) ==
    IF limit_amount.t = "inf"
    THEN <<"Xian", "i", "n", "f", "Wan">>
    ELSE IF limit_amount.n >= 2 * TenThousand
    THEN <<"Xian">> \o Digits(RoundHalfEven(limit_amount.n, 2 * TenThousand)) \o <<"Wan">>
    ELSE <<"Xian">> \o Digits(RoundHalfEven(limit_amount.n, 2))

\* IsPositive with >= 0 in place of > 0.
IsPositive_nonNegative(limit_amount) ==
    \/ limit_amount.t = "inf"
    \/ limit_amount.t \in {"float", "int"} /\ limit_amount.n >= 0

\* Line 120: limit_amount > 0 (nan compares False with everything).
IsPositive(limit_amount) ==
    \/ limit_amount.t = "inf"
    \/ limit_amount.t \in {"float", "int"} /\ limit_amount.n > 0

\* fetch_fund_limit_info with the limit amount tested before the status.
fetch_fund_limit_info_limitFirst(self, response, fund_code) ==
    LET got == extract_fund_limit_info(self, response, fund_code)
        limit_info == got.ret
        text ==
            IF limit_info.t = "None" THEN None
            ELSE IF IsPositive(limit_info.limit_amount)
            THEN PyStr(LimitText(limit_info.limit_amount))
            ELSE IF limit_info.purchase_status = PyStr(PAUSED)
            THEN PyStr(<<"Zan", "Ting">>)
            ELSE PyStr(<<>>)
    IN  Outcome(text, got.self, got.calls)

\* Lines 108-131.
fetch_fund_limit_info(self, response, fund_code) ==
    LET got == extract_fund_limit_info(self, response, fund_code)
        limit_info == got.ret
        text ==
            IF limit_info.t = "None" THEN None
            ELSE IF limit_info.purchase_status = PyStr(PAUSED)
            THEN PyStr(<<"Zan", "Ting">>)
            ELSE IF IsPositive(limit_info.limit_amount)
            THEN PyStr(LimitText(limit_info.limit_amount))
            ELSE PyStr(<<>>)
    IN  Outcome(text, got.self, got.calls)

(***************************************************************************)
(* The state machine.                                                      *)
(*   provider            the table ak.fund_purchase_em() serves now        *)
(*   request             the fund code the caller passes next              *)
(*   fund_limit_fetcher  the attributes of the module's singleton (l.134)  *)
(*   call                the last convenience call made: its arguments,    *)
(*                       the provider's response to its fetch, its result  *)
(*   previous            history: how the fetch of the call before the     *)
(*                       last one ended ("none", "failed" or "served")     *)
(***************************************************************************)
VARIABLES provider, request, fund_limit_fetcher, call, previous

vars == <<provider, request, fund_limit_fetcher, call, previous>>

\* How the fetch of the last call ended.
FetchOf(c) ==
    IF c.op = "none" THEN "none"
    ELSE IF c.response.t = "raise" THEN "failed" ELSE "served"

NoCall ==
    [op |-> "none", fund_code |-> <<>>, response |-> NoFrame,
     text |-> None, info |-> NoInfo, calls |-> 0]

\* What the provider may answer to one call: its table, or a failure.
Responses(mayFail) == IF mayFail THEN {provider, ProviderRaises} ELSE {provider}

\* Lines 137-147: get_fund_limit(fund_code).
GetFundLimit(mayFail) ==
    \E response \in Responses(mayFail) :
        LET fund_code == request
            out == fetch_fund_limit_info(fund_limit_fetcher, response, fund_code)
        IN  /\ call' = [op |-> "get_fund_limit", fund_code |-> fund_code,
                        response |-> response, text |-> out.ret,
                        info |-> NoInfo, calls |-> out.calls]
            /\ fund_limit_fetcher' = out.self
            /\ previous' = FetchOf(call)
            /\ UNCHANGED <<provider, request>>

\* Lines 149-159: get_fund_limit_details(fund_code).
GetFundLimitDetails(mayFail) ==
    \E response \in Responses(mayFail) :
        LET fund_code == request
            out == extract_fund_limit_info(fund_limit_fetcher, response, fund_code)
        IN  /\ call' = [op |-> "get_fund_limit_details", fund_code |-> fund_code,
                        response |-> response, text |-> None,
                        info |-> out.ret, calls |-> out.calls]
            /\ fund_limit_fetcher' = out.self
            /\ previous' = FetchOf(call)
            /\ UNCHANGED <<provider, request>>

\* The environment: the provider starts serving another table.
ProviderPublishes(tables) ==
    /\ provider' \in tables \ {provider}
    /\ UNCHANGED <<request, fund_limit_fetcher, call, previous>>

\* The environment: the caller turns to another fund code.
CallerChooses(codes) ==
    /\ request' \in codes \ {request}
    /\ UNCHANGED <<provider, fund_limit_fetcher, call, previous>>

InitWith(tables, codes) ==
    /\ provider \in tables
    /\ request \in codes
    /\ fund_limit_fetcher = FundLimitFetcher
    /\ call = NoCall
    /\ previous = "none"

\* All sequences over S of length lo..hi.
SeqsOf(S, lo, hi) == UNION {[1..n -> S] : n \in lo..hi}

\* All rows over the given columns, cells[c] being the cells of column c.
RowsOver(columns, cells) ==
    {row \in [columns -> UNION {cells[c] : c \in columns}] :
        \A c \in columns : row[c] \in cells[c]}

\* All tables over the given columns whose rows are drawn from Rows.
TablesOf(columns, Rows, maxRows) ==
    {DataFrame(columns, rows) : rows \in SeqsOf(Rows, 0, maxRows)}

AllColumns == {ColCode, ColLimit, ColStatus, ColType, ColName}

Row(code, limit, status, type, name) ==
    [c \in AllColumns |->
        CASE c = ColCode -> code
          [] c = ColLimit -> limit
          [] c = ColStatus -> status
          [] c = ColType -> type
          [] OTHER -> name]

LOF == <<"L", "O", "F">>

(***************************************************************************)
(* SpecFormat: get_fund_limit on tables whose rows all carry the code      *)
(* "16" and range over the limit and status cells below.                   *)
(***************************************************************************)
MaxFormatRows == 1

\* Limit cells: floats in halves (0, -1, 0.5, 1.5, 2.5, 500, 9999, 9999.5,
\* 10000, 14999.5, 15000, 20000, 25000), nan, inf, None and strings.
LimitCells ==
    {PyFloat(h) : h \in {0, -2, 1, 3, 5, 1000, 19998, 19999, 20000, 29999,
                         30000, 40000, 50000}}
    \cup {NaN, Inf, None, PyStr(<<>>), PyStr(<<"5", "0", "0">>),
          PyStr(<<"a", "b", "c">>), PyStr(<<"i", "n", "f">>)}

StatusCells == {PyStr(PAUSED), PyStr(NORMAL), PyStr(<<>>), NaN, None}

FormatRows ==
    {Row(PyStr(<<"1", "6">>), limit, status, PyStr(LOF), PyStr(LOF)) :
        limit \in LimitCells, status \in StatusCells}

FormatTables == TablesOf(AllColumns, FormatRows, MaxFormatRows)

\* Requested codes: an exact match, a prefixed code, a code of no row.
FormatCodes == {<<"1", "6">>, <<"S", "Z", "1", "6">>, <<"7">>}

InitFormat == InitWith(FormatTables, FormatCodes)

NextFormat == GetFundLimit(TRUE)

SpecFormat == InitFormat /\ [][NextFormat]_vars

\* The LimitInfo the last call's lookup and extraction produced.
CallInfo == extract_fund_limit_info(FundLimitFetcher, call.response, call.fund_code).ret

IsLimitCall == call.op = "get_fund_limit"

HasInfo == IsLimitCall /\ CallInfo.t = "dict"

IsPaused == CallInfo.purchase_status = PyStr(PAUSED)

\* The limit amount of the last call's LimitInfo is a finite number.
IsFinite == CallInfo.limit_amount.t \in {"float", "int"}

IsWhole(s) == s # <<>> /\ \A i \in 1..Len(s) : IsDigit(s[i])

\* n is amount/unit written with no decimals: the integer nearest to
\* halves/(2*unit), the even one when two are equally near.
IsNearest(n, halves, unit) ==
    /\ 2 * unit * n - halves <= unit
    /\ halves - 2 * unit * n <= unit
    /\ (2 * unit * n - halves \in {unit, -unit} => n % 2 = 0)

\* C1: when the selected row's status is exactly the paused status, the text
\* is "Zan Ting" whatever the limit amount is (zero, negative, below or above
\* 10000, nan, infinite).
C1_PausedTakesPriority ==
    (HasInfo /\ IsPaused) => call.text = PyStr(<<"Zan", "Ting">>)

\* C1 witness: a paused row with a limit of 10000 or more was formatted.
C1_Witness ==
    /\ HasInfo /\ IsPaused /\ IsFinite
    /\ CallInfo.limit_amount.n >= 2 * TenThousand
    /\ call.text = PyStr(<<"Zan", "Ting">>)

\* C2 (as claimed): a row that is not paused and whose limit amount is 10000
\* or more gives "Xian" <N> "Wan" with N a whole number, the amount divided
\* by 10000 and written with no decimals.
C2_TenThousandForm ==
    (HasInfo /\ ~IsPaused
        /\ (CallInfo.limit_amount.t = "inf"
            \/ (IsFinite /\ CallInfo.limit_amount.n >= 2 * TenThousand)))
    => /\ call.text.t = "str"
       /\ Len(call.text.s) >= 3
       /\ Head(call.text.s) = "Xian"
       /\ call.text.s[Len(call.text.s)] = "Wan"
       /\ LET digits == SubSeq(call.text.s, 2, Len(call.text.s) - 1)
          IN  /\ IsWhole(digits)
              /\ IsNearest(ParseDigits(digits), CallInfo.limit_amount.n, TenThousand)

\* The ten-thousand form for finite amounts: what remains of C2 when the
\* infinite amount is left out.
TenThousandFormWhenFinite == IsFinite => C2_TenThousandForm

\* C3: a row that is not paused and whose limit amount is above 0 and below
\* 10000 gives "Xian" <N>, N the amount written with no decimals, and no
\* "Wan"; 500 gives "Xian 500" and 9999 gives "Xian 9999".
C3_RawForm ==
    (HasInfo /\ ~IsPaused /\ IsFinite
        /\ CallInfo.limit_amount.n > 0 /\ CallInfo.limit_amount.n < 2 * TenThousand)
    => /\ call.text.t = "str"
       /\ Len(call.text.s) >= 2
       /\ Head(call.text.s) = "Xian"
       /\ IsWhole(Tail(call.text.s))
       /\ IsNearest(ParseDigits(Tail(call.text.s)), CallInfo.limit_amount.n, 1)
       /\ (CallInfo.limit_amount.n = 1000 => call.text.s = <<"Xian", "5", "0", "0">>)
       /\ (CallInfo.limit_amount.n = 19998 => call.text.s = <<"Xian", "9", "9", "9", "9">>)

\* C3 witness: a limit of 9999 was formatted as "Xian 9999".
C3_Witness ==
    /\ HasInfo /\ ~IsPaused /\ IsFinite
    /\ CallInfo.limit_amount.n = 19998
    /\ call.text = PyStr(<<"Xian", "9", "9", "9", "9">>)

\* C4: a row that is not paused and whose limit amount is not positive (0,
\* negative, nan) gives the empty string, which is not None.
C4_EmptyWhenNoLimit ==
    (HasInfo /\ ~IsPaused
        /\ (CallInfo.limit_amount.t = "nan" \/ (IsFinite /\ CallInfo.limit_amount.n <= 0)))
    => /\ call.text = PyStr(<<>>)
       /\ call.text # None

\* C4 witness: a row with the normal status and limit 0 gave "".
C4_Witness ==
    /\ HasInfo
    /\ CallInfo.purchase_status = PyStr(NORMAL)
    /\ CallInfo.limit_amount.n = 0 /\ IsFinite
    /\ call.text = PyStr(<<>>)

\* The four shapes of a display string: "", "Zan Ting", "Xian" <N> "Wan",
\* "Xian" <N>, with N a whole number.
IsDisplayString(s) ==
    \/ s = <<>>
    \/ s = <<"Zan", "Ting">>
    \/ Len(s) >= 2 /\ Head(s) = "Xian" /\ IsWhole(Tail(s))
    \/ /\ Len(s) >= 3 /\ Head(s) = "Xian" /\ s[Len(s)] = "Wan"
       /\ IsWhole(SubSeq(s, 2, Len(s) - 1))

\* The four shapes for finite amounts: what remains of C7 when the infinite
\* amount is left out.
DisplayStringWhenFinite ==
    (IsLimitCall /\ (HasInfo => CallInfo.limit_amount.t # "inf"))
    => (call.text = None \/ (call.text.t = "str" /\ IsDisplayString(call.text.s)))

\* C7 (as claimed): the result of get_fund_limit is None or a display string
\* of one of the four shapes.
C7_NoneOrDisplayString ==
    IsLimitCall =>
        \/ call.text = None
        \/ call.text.t = "str" /\ IsDisplayString(call.text.s)

(***************************************************************************)
(* SpecLookup: get_fund_limit_details on tables with the code and limit    *)
(* columns.  The row at position i carries the limit amount 100 * i, so    *)
(* that the LimitInfo returned tells which row was selected.               *)
(***************************************************************************)
MaxRows == 2

MaxCodeLen == 2

MaxReqLen == 3

\* Characters of the codes in the table.
CodeDigits == {"1", "6"}

\* Characters of the requested codes: digits, and "." which a regular
\* expression reads as any character.
ReqChars == {"1", "6", "."}

\* Code cells: strings of digits, and nan (a missing code).
CodeCells == {PyStr(c) : c \in SeqsOf(CodeDigits, 1, MaxCodeLen)} \cup {NaN}

PositionLimit(i) == PyFloat(2 * 100 * i)

LookupTables ==
    {DataFrame({ColCode, ColLimit},
               [i \in 1..Len(codes) |->
                    [c \in {ColCode, ColLimit} |->
                        IF c = ColCode THEN codes[i] ELSE PositionLimit(i)]]) :
        codes \in SeqsOf(CodeCells, 0, MaxRows)}

LookupCodes == SeqsOf(ReqChars, 0, MaxReqLen)

InitLookup == InitWith(LookupTables, LookupCodes)

NextLookup == GetFundLimitDetails(FALSE)

SpecLookup == InitLookup /\ [][NextLookup]_vars

IsDetailsCall == call.op = "get_fund_limit_details"

\* The code cell of row i of the table the last call fetched.
CodeAt(i) == call.response.rows[i][ColCode]

RowsOfCall == 1..Len(call.response.rows)

\* Row i's code equals the requested code.
EqualsRequested(i) == CodeAt(i).t = "str" /\ CodeAt(i).s = call.fund_code

\* The requested code without its first 2 characters, whole when it has 2
\* characters or fewer.
Remaining ==
    IF Len(call.fund_code) <= 2 THEN call.fund_code
    ELSE [k \in 1..(Len(call.fund_code) - 2) |-> call.fund_code[k + 2]]

\* Row i's code contains the remaining characters as a substring.
ContainsRemaining(i) ==
    /\ CodeAt(i).t = "str"
    /\ \E k \in 0..(Len(CodeAt(i).s) - Len(Remaining)) :
           \A j \in 1..Len(Remaining) : CodeAt(i).s[k + j] = Remaining[j]

\* Row i is the first row whose code equals the requested code.
FirstEqual(i) == EqualsRequested(i) /\ \A k \in RowsOfCall : EqualsRequested(k) => i <= k

\* Row i is the first row whose code contains the remaining characters.
FirstContaining(i) ==
    ContainsRemaining(i) /\ \A k \in RowsOfCall : ContainsRemaining(k) => i <= k

\* C6 (as claimed): with no exact match, the row selected is the first row
\* whose code contains the remaining characters as a substring, and the
\* result is None when no row contains them.
C6_FallbackBySubstring ==
    (IsDetailsCall /\ call.response.t = "df" /\ ~\E i \in RowsOfCall : EqualsRequested(i))
    => IF \E i \in RowsOfCall : ContainsRemaining(i)
       THEN /\ call.info.t = "dict"
            /\ \E i \in RowsOfCall :
                   FirstContaining(i) /\ call.info.limit_amount = PositionLimit(i)
       ELSE call.info.t = "None"

\* The fallback for requested codes made of digits only: what remains of C6
\* when no character of the code is read specially by the regular expression.
FallbackBySubstringForDigits ==
    (\A k \in 1..Len(call.fund_code) : IsDigit(call.fund_code[k]))
    => C6_FallbackBySubstring

\* C9: when some row's code equals the requested code, the LimitInfo is that
\* of the first such row, also when an earlier row contains the remaining
\* characters.
C9_ExactMatchFirst ==
    (IsDetailsCall /\ call.response.t = "df" /\ \E i \in RowsOfCall : EqualsRequested(i))
    => /\ call.info.t = "dict"
       /\ \E i \in RowsOfCall :
              FirstEqual(i) /\ call.info.limit_amount = PositionLimit(i)

\* C9 witness: the second row was selected by exact match although the first
\* row contains the remaining characters.
C9_Witness ==
    /\ IsDetailsCall /\ Len(call.response.rows) >= 2
    /\ ContainsRemaining(1) /\ ~EqualsRequested(1) /\ EqualsRequested(2)
    /\ call.info.t = "dict" /\ call.info.limit_amount = PositionLimit(2)

(***************************************************************************)
(* SpecColumns: both convenience functions on tables with every subset of  *)
(* the five columns.                                                       *)
(***************************************************************************)
MaxColumnRows == 1

\* The cells a column may hold in SpecColumns.
ColumnCells ==
    [c \in AllColumns |->
        CASE c = ColCode -> {PyStr(<<"1", "6">>), NaN}
          [] c = ColLimit -> {PyFloat(1000), PyStr(<<"a", "b", "c">>), None}
          [] c = ColStatus -> {PyStr(NORMAL), NaN}
          [] c = ColType -> {PyStr(LOF), None}
          [] OTHER -> {PyStr(LOF)}]

ColumnTables ==
    UNION {TablesOf(columns, RowsOver(columns, ColumnCells), MaxColumnRows) :
              columns \in SUBSET AllColumns}

InitColumns == InitWith(ColumnTables, FormatCodes)

NextColumns == GetFundLimit(FALSE) \/ GetFundLimitDetails(FALSE)

SpecColumns == InitColumns /\ [][NextColumns]_vars

HasCodeColumn == call.response.t = "df" /\ ColCode \in call.response.columns

\* The lookup finds a row: one whose code equals the requested code or
\* contains its remaining characters.
RowFound ==
    HasCodeColumn /\ \E i \in RowsOfCall : EqualsRequested(i) \/ ContainsRemaining(i)

\* The position of the row the lookup selects.
Selected ==
    IF \E i \in RowsOfCall : EqualsRequested(i)
    THEN CHOOSE i \in RowsOfCall : FirstEqual(i)
    ELSE CHOOSE i \in RowsOfCall : FirstContaining(i)

Lacks(c) == c \notin call.response.columns

\* The selected row's limit cell is text that is no number.
LimitCellNotNumeric ==
    /\ ~Lacks(ColLimit)
    /\ call.response.rows[Selected][ColLimit].t = "str"
    /\ \E k \in 1..Len(call.response.rows[Selected][ColLimit].s) :
           ~IsDigit(call.response.rows[Selected][ColLimit].s[k])

\* C8: a missing optional column never makes the extraction fail.  When a
\* row is found, the result is None only when the limit column is present
\* and its cell is text that is no number; otherwise it is a LimitInfo with
\* limit_amount 0 for a missing limit column and "" for each missing text
\* column, and get_fund_limit gives "" (not None) on a table that has only the
\* code column.
C8_MissingColumnsDefault ==
    /\ (IsDetailsCall /\ RowFound) =>
          /\ call.info.t = "None" => LimitCellNotNumeric
          /\ call.info.t = "dict" =>
                /\ Lacks(ColLimit) => call.info.limit_amount = PyInt(0)
                /\ Lacks(ColStatus) => call.info.purchase_status = PyStr(<<>>)
                /\ Lacks(ColType) => call.info.fund_type = PyStr(<<>>)
                /\ Lacks(ColName) => call.info.fund_name = PyStr(<<>>)
    /\ (IsLimitCall /\ RowFound /\ call.response.columns = {ColCode}) =>
          call.text = PyStr(<<>>)

\* C8 witness: get_fund_limit_details matched a row of a table that has only
\* the code column and returned the all-default LimitInfo.
C8_Witness ==
    /\ IsDetailsCall /\ RowFound /\ call.response.columns = {ColCode}
    /\ call.info =
          [t |-> "dict", limit_amount |-> PyInt(0), purchase_status |-> PyStr(<<>>),
           fund_type |-> PyStr(<<>>), fund_name |-> PyStr(<<>>)]

(***************************************************************************)
(* Spec: the module in use.  The provider changes its table, the caller    *)
(* changes the code, and get_fund_limit and get_fund_limit_details are     *)
(* called in any order; each fetch may fail.                               *)
(***************************************************************************)
MaxSysRows == 1

SysCells ==
    [c \in AllColumns |->
        CASE c = ColCode -> {PyStr(<<"1", "6">>)}
          [] c = ColLimit -> {PyFloat(40000)}
          [] c = ColStatus -> {PyStr(PAUSED), PyStr(NORMAL)}
          [] OTHER -> {PyStr(LOF)}]

\* Tables with all columns, tables without the code column, and the table
\* with no column at all.
SysTables ==
    UNION {TablesOf(columns, RowsOver(columns, SysCells), MaxSysRows) :
              columns \in {AllColumns, AllColumns \ {ColCode}, {}}}

\* Requested codes: an exact match, a prefixed code, a code of no row, and a
\* code that is a malformed regular expression.
SysCodes == {<<"1", "6">>, <<"S", "Z", "1", "6">>, <<"7">>, <<"(">>}

Init == InitWith(SysTables, SysCodes)

Next ==
    \/ ProviderPublishes(SysTables)
    \/ CallerChooses(SysCodes)
    \/ GetFundLimit(TRUE)
    \/ GetFundLimitDetails(TRUE)

Spec == Init /\ [][Next]_vars

\* The value the last call returned is None.
ReturnedNone ==
    IF IsLimitCall THEN call.text = None ELSE call.info.t = "None"

\* C5: when the fetch fails, when the table has no code column, or when the
\* table has no rows, get_fund_limit_details and get_fund_limit return None.
C5_NoTableNoResult ==
    (call.op # "none"
        /\ (call.response.t = "raise" \/ ~HasCodeColumn \/ call.response.rows = <<>>))
    => ReturnedNone

\* C5 witness: get_fund_limit returned None after a failed fetch although
\* the provider's table holds the requested code.
C5_Witness ==
    /\ IsLimitCall /\ call.response.t = "raise" /\ call.text = None
    /\ ColCode \in provider.columns
    /\ \E i \in 1..Len(provider.rows) : provider.rows[i][ColCode] = PyStr(call.fund_code)

\* What a call on a newly made FundLimitFetcher returns for the last call's
\* code and response.
FreshText == fetch_fund_limit_info(FundLimitFetcher, call.response, call.fund_code).ret

FreshInfo == extract_fund_limit_info(FundLimitFetcher, call.response, call.fund_code).ret

\* After any sequence of calls: the singleton has no attribute, the last call
\* fetched the table exactly once and returned what a new instance returns
\* for the same code and response, and get_fund_limit returns None exactly
\* when get_fund_limit_details does for the same code and response.
StatelessCall ==
    /\ fund_limit_fetcher = FundLimitFetcher
    /\ call.op # "none" => call.calls = 1
    /\ IsLimitCall => call.text = FreshText /\ (call.text = None <=> FreshInfo.t = "None")
    /\ IsDetailsCall => call.info = FreshInfo /\ (call.info.t = "None" <=> FreshText = None)

\* C10 witness: a call whose fetch succeeded gave a text right after a call
\* whose fetch failed.
C10_Witness ==
    /\ previous = "failed"
    /\ IsLimitCall /\ call.response.t = "df" /\ call.text # None
    /\ call.text = FreshText

\* C10: calls are stateless.  StatelessCall holds after any sequence of calls
\* (also right after a call whose fetch failed), and a call changes neither
\* the provider's table nor any attribute of the singleton.
C10_Stateless ==
    /\ []StatelessCall
    /\ [][call' # call =>
            provider' = provider /\ fund_limit_fetcher' = fund_limit_fetcher]_vars
====
